---- MODULE Spec2Model ----
(***************************************************************************)
(* State-machine model of the gesture-controlled runner:                   *)
(*   Game            (index.html, inline module script)                    *)
(*   GameEngine      (index.html, lines 452-1171)                          *)
(*   ObstacleManager (src/js/game/ObstacleManager.js)                      *)
(*   CollisionDetector (unnamed/part_001)                                  *)
(*   GestureRecognizer (src/js/gesture/GestureRecognizer.js)               *)
(*                                                                         *)
(* Numbers.  The program computes with doubles; the model computes with    *)
(* exact scaled integers:                                                  *)
(*   score            in units of 1/ScoreUnit points                       *)
(*   speed            in units of 1/SpeedUnit  (SpeedUnit = 20*ScoreUnit,  *)
(*                    so that 1 + 0.05*score is an integer)                *)
(*   positions (z)    in units of 1/PosUnit world units                    *)
(*   times            in milliseconds, measured from the moment            *)
(*                    nextSpawnTime was last scheduled: every test the     *)
(*                    program makes on Date.now() is a difference of two   *)
(*                    times, so the origin is immaterial                   *)
(* PosUnit is chosen so that the step of a frame, baseSpeed*speed, is the   *)
(* scaled speed itself: baseSpeed is SpeedUnit/PosUnit = 20/StepDen world  *)
(* units per frame.                                                        *)
(***************************************************************************)
EXTENDS Integers, Sequences, FiniteSets, TLC

(* ------------------------------ bounds --------------------------------- *)
\* number of binary fraction digits kept in the score
FracBits == 1
\* a tick is not taken once the score (in points) has passed this value
MaxScore == 36
\* time between two calls of update() by the render loop (ms); a browser
\* calls it about every 16 ms, the model takes coarser steps
FrameMs == 100
\* a session is not started with more than this many active meshes left
\* outside the live list
MaxLeaked == 0
\* baseSpeed is 20/StepDen world units per frame.  The program's 0.03 is a
\* StepDen of about 667; the model moves the obstacles in coarser steps,
\* the largest (2.5 * 20/StepDen) no wider than the hit window, so that an
\* obstacle cannot step over the player
StepDen == 25

\* ObstacleManager called on its own: update(speed) is called with a speed
\* of MaxStep world units
MaxStep == 8
\* ObstacleManager called on its own: no call is made that would leave more
\* than this many active meshes outside the live list
RegMaxLeaked == 1
\* spawnObstacle applied to given registries: their live lists hold at most
\* this many entries
MaxLive == 2

(* --------------------------- program constants ------------------------- *)
spawnDistance == -15
despawnDistance == 8
minObstacleDistance == 8
poolSize == 15
minSpawnInterval == 2000
spawnIntervalVariation == 1000
playerZ == 4
passZ == 5
targetSize == 1
commonTargetSize == 1
basePoints == 10

ScoreUnit ==
    2 ^ FracBits
SpeedUnit ==
    20 * ScoreUnit
PosUnit ==
    StepDen * ScoreUnit
maxSpeed ==
    (5 * SpeedUnit) \div 2

Kinds ==
    {"rock", "paper", "scissors"}
Gestures ==
    {"none", "unknown", "rock", "paper", "scissors"}
\* (Math.random() - 0.5) * spawnIntervalVariation lies in [-500, 500)
Variations ==
    { -(spawnIntervalVariation \div 2), (spawnIntervalVariation \div 2) - 1 }

VARIABLES
    gameState,          \* Game.gameState: "start", "playing", "gameOver"
    isRunning,          \* GameEngine.isRunning
    score,              \* GameEngine.score   (scaled by ScoreUnit)
    combo,              \* GameEngine.combo
    maxCombo,           \* GameEngine.maxCombo
    speed,              \* GameEngine.speed   (scaled by SpeedUnit)
    playerGesture,      \* GameEngine.playerGesture
    nextSpawnTime,      \* GameEngine.nextSpawnTime (ms)
    now,                \* Date.now() (ms since nextSpawnTime was scheduled)
    obstacles,          \* ObstacleManager.obstacles (live list)
    obstaclePool,       \* ObstacleManager.obstaclePool (per kind, meshes)
    playerModelLoaded,  \* whether the player GLB models loaded (hitbox non-empty)
    currentGesture,     \* GestureRecognizer.currentGesture
    lastOp,             \* the last call of update() or startGame(): its branch
    events              \* the callbacks the handler that ran last emitted

vars ==
    <<gameState, isRunning, score, combo, maxCombo, speed, playerGesture,
      nextSpawnTime, now, obstacles, obstaclePool, playerModelLoaded,
      currentGesture, lastOp, events>>

(* ------------------------------ helpers -------------------------------- *)
Max(a, b) ==
    IF a >= b THEN a ELSE b
Min(a, b) ==
    IF a <= b THEN a ELSE b
Abs(a) ==
    IF a >= 0 THEN a ELSE -a

RemoveAt(s, i) ==
    [j \in 1..(Len(s) - 1) |-> IF j < i THEN s[j] ELSE s[j + 1]]

\* what the last call did: its name, the obstacle it resolved (kind, pooled
\* mesh), the gesture it compared, the branch taken, the spawn attempt, and
\* score, combo and maxCombo as they were when the obstacle was resolved
Op(name, g, kind, mesh, outcome, spawn, s, c, mc) ==
    [op |-> name, g |-> g, kind |-> kind, mesh |-> mesh, outcome |-> outcome,
     spawn |-> spawn, score |-> s, combo |-> c, maxCombo |-> mc]

\* a call that resolved no obstacle
Plain(name, outcome, spawn) ==
    Op(name, "none", "none", 0, outcome, spawn, 0, 0, 0)

(* --------------------------- GameEngine ------------------------------- *)
\* the cycle read the other way round (the gesture the obstacle beats); a
\* variant the outcome table is compared against
getBeatenGesture(obstacleType) ==
    CASE obstacleType = "rock" -> "scissors"
      [] obstacleType = "paper" -> "rock"
      [] obstacleType = "scissors" -> "paper"
      [] OTHER -> "none"

\* getRequiredGesture: the gesture that beats the obstacle
getRequiredGesture(obstacleType) ==
    CASE obstacleType = "rock" -> "paper"
      [] obstacleType = "paper" -> "scissors"
      [] obstacleType = "scissors" -> "rock"
      [] OTHER -> "none"

\* setPlayerGesture without the sanitising of 'unknown': a variant the
\* no-hand handling is compared against
setPlayerGestureRaw(current, newGestureInput) ==
    IF newGestureInput = "none"
    THEN IF current = "none" THEN "rock" ELSE current
    ELSE IF current = newGestureInput THEN current ELSE newGestureInput

\* setPlayerGesture that drops a held gesture when no hand is seen: a
\* variant the idempotence is compared against
setPlayerGestureForgetful(current, newGestureInput) ==
    LET newGesture == IF newGestureInput = "unknown" THEN "none"
                      ELSE newGestureInput
    IN  IF newGesture = "none"
        THEN IF current = "none" THEN "rock" ELSE "none"
        ELSE newGesture

\* setPlayerGesture: the value of playerGesture after the call
setPlayerGesture(current, newGestureInput) ==
    LET newGesture == IF newGestureInput = "unknown" THEN "none"
                      ELSE newGestureInput
    IN  IF newGesture = "none"
        THEN IF current = "none" THEN "rock" ELSE current
        ELSE IF current = newGesture THEN current ELSE newGesture

\* the speed without its upper clamp: a variant the speed range is
\* compared against
SpeedUnclamped(s) ==
    SpeedUnit + s

\* this.speed = Math.min(1.0 + (this.score * 0.05), 2.5)
SpeedOf(s) ==
    Min(SpeedUnit + s, maxSpeed)

\* a track that stands still.  A variant the eventual resolution of the
\* obstacles is compared against
CurrentSpeedZero(spd) ==
    0

\* currentSpeed = baseSpeed * speed, in position units
CurrentSpeed(spd) ==
    spd

\* speed.toFixed(1): tenths, rounded half up
ToFixed1(spd) ==
    (spd * 20 + SpeedUnit) \div (2 * SpeedUnit)

\* a base interval that ignores the speed.  A variant the spawn pacing is
\* compared against
BaseIntervalFixed(spd) ==
    minSpawnInterval

\* minSpawnInterval / speed, in ms (rounded down to a whole ms)
BaseInterval(spd) ==
    (minSpawnInterval * SpeedUnit) \div spd

\* a schedule that makes the next spawn due at once: a variant the start
\* postcondition is compared against
scheduleSpawnNow(t, spd, variation) ==
    t

\* scheduleNextSpawn: the new nextSpawnTime, t being Date.now()
scheduleNextSpawn(t, spd, variation) ==
    t + BaseInterval(spd) + variation

\* points of a win without the speed bonus: a variant the scoring is
\* compared against
PointsNoSpeedBonus(spd, cmb) ==
    (basePoints + cmb * 2) * ScoreUnit

\* points of a win: basePoints + floor(speed * 5) + combo * 2
Points(spd, cmb) ==
    (basePoints + ((spd * 5) \div SpeedUnit) + cmb * 2) * ScoreUnit

\* a penalty that does not scale with the speed: a variant the tie penalty
\* is compared against
PenaltyFlat(spd) ==
    10 * ScoreUnit

\* penalty of a tie: 10 * speed
Penalty(spd) ==
    (10 * spd * ScoreUnit) \div SpeedUnit

\* the penalty is a whole number of score units
PenaltyExact(spd) ==
    (10 * spd * ScoreUnit) % SpeedUnit = 0

ScoreEvent(s, spd) ==
    [type |-> "score", score |-> s, arg |-> ToFixed1(spd)]
GameOverEvent(s, mc) ==
    [type |-> "gameOver", score |-> s, arg |-> mc]

(* ------------------------- ObstacleManager ---------------------------- *)
(* A pooled mesh is identified by its kind and its index in the pool of    *)
(* that kind; obstaclePool[kind][i] is its userData.active flag.  A live   *)
(* entry {mesh, type, lane, spawnTime} is [type, mesh, lane, z], mesh      *)
(* being the index in the pool of kind type and z the mesh's position.z.   *)
(* The position of a mesh that no live entry references is never read      *)
(* (spawnObstacle overwrites it), so it is not kept.                       *)
Entry(type, mesh, lane, z) ==
    [type |-> type, mesh |-> mesh, lane |-> lane, z |-> z]

IsActive(pool, o) ==
    pool[o.type][o.mesh]

\* removeObstacle for the entry at index i of the live list
removeObstacle(obs, pool, i) ==
    LET o == obs[i]
    IN  [obstacles |-> RemoveAt(obs, i),
         pool |-> [pool EXCEPT ![o.type][o.mesh] = FALSE]]

\* removeObstacle that splices whatever indexOf returned: splice(-1, 1)
\* removes the last entry.  A variant the repeated removal is compared
\* against
removeObstacleUnguarded(obs, pool, ref) ==
    [obstacles |-> IF obs = <<>> THEN obs ELSE SubSeq(obs, 1, Len(obs) - 1),
     pool |-> [pool EXCEPT ![ref[1]][ref[2]] = FALSE]]

\* removeObstacle for an entry that is not in the live list (indexOf
\* returns -1 and nothing is spliced); ref is <<kind, mesh>> of the entry
removeObstacleAbsent(obs, pool, ref) ==
    [obstacles |-> obs,
     pool |-> [pool EXCEPT ![ref[1]][ref[2]] = FALSE]]

\* a filter callback that takes the obstacle past the threshold out of the
\* live list and leaves its mesh active: a variant the despawn is compared
\* against
FilterStepKeepsActive(st, k, spd) ==
    IF k > Len(st.obstacles) THEN st
    ELSE LET o == st.obstacles[k]
         IN  IF ~st.pool[o.type][o.mesh] THEN st
             ELSE LET moved == [o EXCEPT !.z = @ + spd]
                  IN  IF moved.z > despawnDistance * PosUnit
                      THEN [st EXCEPT !.obstacles = RemoveAt(@, k)]
                      ELSE [st EXCEPT !.obstacles[k] = moved,
                                      !.kept = Append(@, moved)]

\* one call of the callback of update()'s filter, at index k: st holds the
\* array being filtered (the callback splices it through removeObstacle),
\* the pool and the entries kept so far
FilterStep(st, k, spd) ==
    IF k > Len(st.obstacles) THEN st
    ELSE LET o == st.obstacles[k]
         IN  IF ~IsActive(st.pool, o) THEN st
             ELSE LET moved == [o EXCEPT !.z = @ + spd]
                  IN  IF moved.z > despawnDistance * PosUnit
                      THEN LET r == removeObstacle(st.obstacles, st.pool, k)
                           IN  [st EXCEPT !.obstacles = r.obstacles, !.pool = r.pool]
                      ELSE [st EXCEPT !.obstacles[k] = moved,
                                      !.kept = Append(@, moved)]

\* update(speed): Array.prototype.filter visits the indices below the length
\* the array had when the filter started
update(obs, pool, spd) ==
    LET run[k \in 0..Len(obs)] ==
            IF k = 0 THEN [obstacles |-> obs, pool |-> pool, kept |-> <<>>]
            ELSE FilterStep(run[k - 1], k, spd)
        end == run[Len(obs)]
    IN  [obstacles |-> end.kept, pool |-> end.pool]

\* a spawn test without the spacing: a variant the spacing is compared
\* against
canAlwaysSpawn(obs) ==
    TRUE

canSpawnObstacle(obs) ==
    IF Len(obs) = 0 THEN TRUE
    ELSE Abs(obs[Len(obs)].z - spawnDistance * PosUnit)
            >= minObstacleDistance * PosUnit

\* a pool lookup that takes the first mesh whether it is active or not: a
\* variant the pool invariant is compared against
getFirstFromPool(pool, type) ==
    1

\* pool.find(obs => !obs.userData.active): the index of the first inactive
\* mesh of the pool, or that of a new slot at its end
getObstacleFromPool(pool, type) ==
    CHOOSE i \in 1..(Len(pool[type]) + 1) :
        /\ i > Len(pool[type]) \/ ~pool[type][i]
        /\ \A j \in 1..(i - 1) : pool[type][j]

\* spawnObstacle that gives up when every mesh of the kind is active: a
\* variant the spawn result is compared against
spawnObstacleNoGrowth(obs, pool, type, lane) ==
    IF ~canSpawnObstacle(obs) \/ getObstacleFromPool(pool, type) > Len(pool[type])
    THEN [obstacles |-> obs, pool |-> pool, spawned |-> FALSE]
    ELSE LET i == getObstacleFromPool(pool, type)
         IN  [obstacles |-> Append(obs, Entry(type, i, lane, spawnDistance * PosUnit)),
              pool |-> [pool EXCEPT ![type][i] = TRUE], spawned |-> TRUE]

spawnObstacle(obs, pool, type, lane) ==
    IF ~canSpawnObstacle(obs)
    THEN [obstacles |-> obs, pool |-> pool, spawned |-> FALSE]
    ELSE LET i == getObstacleFromPool(pool, type)
             p == IF i > Len(pool[type])
                  THEN [pool EXCEPT ![type] = Append(@, TRUE)]
                  ELSE [pool EXCEPT ![type][i] = TRUE]
         IN  [obstacles |-> Append(obs, Entry(type, i, lane, spawnDistance * PosUnit)),
              pool |-> p, spawned |-> TRUE]

\* the most recent active obstacle of a lane (0 when there is none): the
\* filtered entries sorted by descending spawnTime, then the first.  Entries
\* are pushed in the order of their spawnTime, and two pushes are always
\* separated by a scheduleNextSpawn that moves nextSpawnTime past the first,
\* so the entry with the largest spawnTime is the one pushed last
getRecentObstacleInLane(obs, pool, lane) ==
    LET cand == {i \in 1..Len(obs) : obs[i].lane = lane /\ IsActive(pool, obs[i])}
    IN  IF cand = {} THEN 0
        ELSE CHOOSE i \in cand : \A j \in cand : i >= j

Lanes ==
    {-1, 0, 1}

\* the {type, lane} pairs spawnRandomObstacle draws from
availableCombinations(obs, pool) ==
    {c \in Kinds \X Lanes :
        LET r == getRecentObstacleInLane(obs, pool, c[2])
        IN  r = 0 \/ obs[r].type # c[1]}

\* the types spawnRandomObstacle can pick
SpawnTypes(obs, pool) ==
    IF availableCombinations(obs, pool) = {} THEN Kinds
    ELSE {c[1] : c \in availableCombinations(obs, pool)}

\* reset(): forEach over this.obstacles, whose callback splices it; forEach
\* visits the indices below the length the array had when it started and
\* skips those the array no longer has
reset(obs, pool) ==
    LET run[k \in 0..Len(obs)] ==
            IF k = 0 THEN [obstacles |-> obs, pool |-> pool]
            ELSE LET st == run[k - 1]
                 IN  IF k > Len(st.obstacles) THEN st
                     ELSE removeObstacle(st.obstacles, st.pool, k)
    IN  [obstacles |-> <<>>, pool |-> run[Len(obs)].pool]

\* getActiveObstacles: indices of the live entries whose mesh is active
getActiveObstacles(obs, pool) ==
    SelectSeq([i \in 1..Len(obs) |-> i], LAMBDA i : IsActive(pool, obs[i]))

\* pooled meshes that are active
ActiveMeshes(pool) ==
    UNION {{<<k, i>> : i \in {j \in 1..Len(pool[k]) : pool[k][j]}} : k \in Kinds}

\* active meshes that no live entry references
Leaked(obs, pool) ==
    ActiveMeshes(pool) \ {<<obs[i].type, obs[i].mesh>> : i \in 1..Len(obs)}

(* ------------------------- CollisionDetector --------------------------- *)
\* Box3 intersection of the player group (at z = playerZ) and the obstacle
\* mesh; an empty player group has an empty box that intersects nothing
checkCollision(loaded, z) ==
    /\ loaded
    /\ 2 * Abs(z - playerZ * PosUnit) <= (targetSize + commonTargetSize) * PosUnit

(* ----------------------- GameEngine: the session ----------------------- *)
\* the part of the state a tick works on, and what it resolved
World ==
    [isRunning |-> isRunning, gameState |-> gameState, score |-> score,
     combo |-> combo, maxCombo |-> maxCombo, speed |-> speed,
     obstacles |-> obstacles, pool |-> obstaclePool, events |-> <<>>,
     op |-> Plain("tick", "none", "no"), exact |-> TRUE]

\* gameOver() that leaves the session running: a variant the loss is
\* compared against
gameOverStillRunning(w) ==
    [w EXCEPT !.combo = 0,
              !.events = Append(@, GameOverEvent(w.score, w.maxCombo)),
              !.gameState = "gameOver"]

\* gameOver() that calls the callback twice: a variant the single
\* notification is compared against
gameOverTwice(w) ==
    [w EXCEPT !.isRunning = FALSE,
              !.combo = 0,
              !.events = Append(Append(@, GameOverEvent(w.score, w.maxCombo)),
                                GameOverEvent(w.score, w.maxCombo)),
              !.gameState = "gameOver"]

\* gameOver() that leaves the combo as it is: a variant the combo bound is
\* compared against
gameOverKeepsCombo(w) ==
    [w EXCEPT !.isRunning = FALSE,
              !.events = Append(@, GameOverEvent(w.score, w.maxCombo)),
              !.gameState = "gameOver"]

\* gameOver(), followed by Game.onGameOver (the registered callback)
gameOver(w) ==
    [w EXCEPT !.isRunning = FALSE,
              !.combo = 0,
              !.events = Append(@, GameOverEvent(w.score, w.maxCombo)),
              !.gameState = "gameOver"]

\* updateScore(): onScoreUpdateCallback(score, speed.toFixed(1))
updateScore(w) ==
    [w EXCEPT !.events = Append(@, ScoreEvent(w.score, w.speed))]

\* updateCombo(): Game.startGame registers no combo callback
updateCombo(w) ==
    w

\* handleCollision(obstacle) for the entry at index i of the live list
handleCollision(w, i, pg) ==
    LET obstacleType == w.obstacles[i].type
        requiredGesture == getRequiredGesture(obstacleType)
        snap(outcome) == Op("tick", pg, obstacleType, w.obstacles[i].mesh,
                            outcome, "no", w.score, w.combo, w.maxCombo)
    IN  IF pg = "none"
        THEN gameOver([w EXCEPT !.op = snap("loss")])
        ELSE IF pg = requiredGesture
        THEN LET points == Points(w.speed, w.combo)
                 w1 == [w EXCEPT !.op = snap("win"),
                                 !.score = @ + points,
                                 !.combo = @ + 1,
                                 !.maxCombo = Max(@, w.combo + 1)]
                 r == removeObstacle(w1.obstacles, w1.pool, i)
                 w2 == [w1 EXCEPT !.obstacles = r.obstacles, !.pool = r.pool]
             IN  updateCombo(updateScore(w2))
        ELSE IF pg = obstacleType
        THEN LET w1 == updateScore([w EXCEPT !.op = snap("tie"),
                                             !.score = @ - Penalty(w.speed),
                                             !.exact = PenaltyExact(w.speed)])
             IN  IF w1.score < 0
                 THEN gameOver(w1)
                 ELSE LET r == removeObstacle(w1.obstacles, w1.pool, i)
                      IN  updateCombo([w1 EXCEPT !.combo = 0,
                                                 !.obstacles = r.obstacles,
                                                 !.pool = r.pool])
        ELSE gameOver([w EXCEPT !.op = snap("loss")])

\* the collision loop of the earliest revision of update(): an obstacle that
\* has passed the player is ignored.  A variant the pass-through policy is
\* compared against
CollisionLoopLenient(w, act, pg, loaded) ==
    LET stops == {j \in 1..Len(act) : checkCollision(loaded, w.obstacles[act[j]].z)}
    IN  IF stops = {} THEN w
        ELSE handleCollision(w, act[CHOOSE j \in stops : \A k \in stops : j <= k], pg)

\* a collision loop that resolves the head of the snapshot without testing
\* the overlap.  A variant the one-collision rule is compared against
CollisionLoopFirst(w, act, pg, loaded) ==
    IF act = <<>> THEN w ELSE handleCollision(w, act[1], pg)

\* the collision loop of update(): act is the snapshot getActiveObstacles()
\* returned before the loop.  The loop breaks at the first obstacle that
\* collides with the player or has passed it
CollisionLoop(w, act, pg, loaded) ==
    LET hit(j) == \/ checkCollision(loaded, w.obstacles[act[j]].z)
                  \/ w.obstacles[act[j]].z > passZ * PosUnit
        stops == {j \in 1..Len(act) : hit(j)}
    IN  IF stops = {} THEN w
        ELSE LET i == act[CHOOSE j \in stops : \A k \in stops : j <= k]
                 o == w.obstacles[i]
             IN  IF checkCollision(loaded, o.z)
                 THEN handleCollision(w, i, pg)
                 ELSE gameOver([w EXCEPT !.op = Op("tick", pg, o.type, o.mesh,
                                                   "pass", "no", w.score,
                                                   w.combo, w.maxCombo)])

\* update(deltaTime) past its guard: the obstacles move, a spawn is tried
\* when it is due, then the collision loop runs.  type and variation are the
\* random draws of spawnRandomObstacle and scheduleNextSpawn
RunningTick ==
  \E spd \in {SpeedOf(score)} :
  \E u \in {update(obstacles, obstaclePool, CurrentSpeed(spd))} :
    LET t == now + FrameMs
        due == t >= nextSpawnTime
        can == due /\ canSpawnObstacle(u.obstacles)
    IN  /\ \E type \in (IF can THEN SpawnTypes(u.obstacles, u.pool) ELSE {"none"}) :
            \E s \in {IF due THEN spawnObstacle(u.obstacles, u.pool, type, 0)
                       ELSE [obstacles |-> u.obstacles, pool |-> u.pool,
                             spawned |-> FALSE]} :
            \E w0 \in {[World EXCEPT !.speed = spd, !.obstacles = s.obstacles,
                                      !.pool = s.pool]} :
            \E w \in {CollisionLoop(w0, getActiveObstacles(w0.obstacles, w0.pool),
                                     playerGesture, playerModelLoaded)} :
                  /\ w.exact
                  /\ w.score <= MaxScore * ScoreUnit
                  /\ isRunning' = w.isRunning
                  /\ gameState' = w.gameState
                  /\ score' = w.score
                  /\ combo' = w.combo
                  /\ maxCombo' = w.maxCombo
                  /\ speed' = w.speed
                  /\ obstacles' = w.obstacles
                  /\ obstaclePool' = w.pool
                  /\ events' = w.events
                  /\ lastOp' = [w.op EXCEPT !.spawn = IF ~due THEN "no"
                                                      ELSE IF s.spawned THEN "spawned"
                                                      ELSE "rejected"]
        /\ IF due
           THEN /\ \E variation \in Variations :
                      nextSpawnTime' = scheduleNextSpawn(0, spd, variation)
                /\ now' = 0
           ELSE /\ nextSpawnTime' = nextSpawnTime
                /\ now' = t
        /\ UNCHANGED <<playerGesture, playerModelLoaded, currentGesture>>

\* update(deltaTime) without its guard: a variant the frozen session is
\* compared against
TickUnguarded ==
    RunningTick

\* GameEngine.update(deltaTime), called from the render loop every frame
Tick ==
    \/ /\ ~isRunning
       /\ lastOp' = Plain("tick", "idle", "no")
       /\ events' = <<>>
       /\ UNCHANGED <<gameState, isRunning, score, combo, maxCombo, speed,
                      playerGesture, nextSpawnTime, now, obstacles,
                      obstaclePool, playerModelLoaded, currentGesture>>
    \/ /\ isRunning
       /\ RunningTick

\* GameEngine.startGame(callbacks)
EngineStart(variation, name) ==
    LET r == reset(obstacles, obstaclePool)
    IN  /\ isRunning' = TRUE
        /\ score' = 0
        /\ combo' = 0
        /\ maxCombo' = 0
        /\ speed' = SpeedUnit
        /\ playerGesture' = "none"
        /\ obstacles' = r.obstacles
        /\ obstaclePool' = r.pool
        /\ now' = 0
        /\ nextSpawnTime' = scheduleNextSpawn(0, SpeedUnit, variation)
        /\ events' = <<ScoreEvent(0, SpeedUnit)>>
        /\ lastOp' = Plain(name, "none", "no")
        /\ UNCHANGED <<playerModelLoaded, currentGesture>>

\* a session is started while reset() leaves at most MaxLeaked active meshes
\* outside the live list
CanStart ==
    Cardinality(Leaked(<<>>, reset(obstacles, obstaclePool).pool)) <= MaxLeaked

\* Game.startGame: the start button, shown on the start screen
StartGame ==
    /\ gameState = "start"
    /\ CanStart
    /\ gameState' = "playing"
    /\ \E variation \in Variations : EngineStart(variation, "start")

\* Game.restartGame: the restart button, shown on the game-over screen
RestartGame ==
    /\ gameState = "gameOver"
    /\ CanStart
    /\ gameState' = "playing"
    /\ \E variation \in Variations : EngineStart(variation, "restart")

\* Game.onGestureDetected(gesture, confidence): the recognizer's callback
GestureDetected ==
    \E g \in Gestures :
        /\ playerGesture' = IF gameState = "playing"
                            THEN setPlayerGesture(playerGesture, g)
                            ELSE playerGesture
        /\ events' = <<>>
        /\ UNCHANGED <<gameState, isRunning, score, combo, maxCombo, speed,
                       nextSpawnTime, now, obstacles, obstaclePool,
                       playerModelLoaded, currentGesture, lastOp>>

\* the state after Game.init(): both constructors and both init() calls
Init ==
    /\ gameState = "start"
    /\ isRunning = FALSE
    /\ score = 0
    /\ combo = 0
    /\ maxCombo = 0
    /\ speed = SpeedUnit
    /\ playerGesture = "rock"
    /\ now = 0
    /\ nextSpawnTime \in {scheduleNextSpawn(0, SpeedUnit, v) : v \in Variations}
    /\ obstacles = <<>>
    /\ obstaclePool = [k \in Kinds |-> [i \in 1..poolSize |-> FALSE]]
    /\ playerModelLoaded \in BOOLEAN
    /\ currentGesture = "none"
    /\ lastOp = Plain("init", "none", "no")
    /\ events = <<>>

Next ==
    \/ Tick
    \/ StartGame
    \/ RestartGame
    \/ GestureDetected

Spec ==
    Init /\ [][Next]_vars

\* the render loop calls update() in every animation frame: a tick that
\* stays possible is eventually taken
SpecFair ==
    Spec /\ WF_vars(Tick)

(* ------------------- GameEngine.setPlayerGesture alone ------------------ *)
(* The engine's method called directly, whatever the screen shows, from    *)
(* three states of the session: as constructed, just started, and started  *)
(* with the first obstacle spawned.                                        *)
\* what a call of setPlayerGesture received and the intent it started from
GestureOp(g, intent) ==
    [op |-> "setPlayerGesture", g |-> g, intent |-> intent]

\* GameEngine.setPlayerGesture(newGestureInput)
SetPlayerGesture ==
    \E g \in Gestures :
        /\ playerGesture' = setPlayerGesture(playerGesture, g)
        /\ lastOp' = GestureOp(g, playerGesture)
        /\ events' = <<>>
        /\ UNCHANGED <<gameState, isRunning, score, combo, maxCombo, speed,
                       nextSpawnTime, now, obstacles, obstaclePool,
                       playerModelLoaded, currentGesture>>

\* the session right after startGame(), and after the first spawn
InitStarted ==
    /\ gameState = "playing"
    /\ isRunning = TRUE
    /\ score = 0
    /\ combo = 0
    /\ maxCombo = 0
    /\ speed = SpeedUnit
    /\ playerGesture = "none"
    /\ now = 0
    /\ nextSpawnTime \in {scheduleNextSpawn(0, SpeedUnit, v) : v \in Variations}
    /\ playerModelLoaded \in BOOLEAN
    /\ currentGesture = "none"
    /\ \/ /\ obstacles = <<>>
          /\ obstaclePool = [k \in Kinds |-> [i \in 1..poolSize |-> FALSE]]
          /\ lastOp = Plain("start", "none", "no")
          /\ events = <<ScoreEvent(0, SpeedUnit)>>
       \/ \E type \in Kinds :
             LET s == spawnObstacle(<<>>, [k \in Kinds |-> [i \in 1..poolSize |-> FALSE]],
                                    type, 0)
             IN  /\ obstacles = s.obstacles
                 /\ obstaclePool = s.pool
                 /\ lastOp = Plain("tick", "none", "spawned")
                 /\ events = <<>>

InitGesture ==
    Init \/ InitStarted

NextGesture ==
    SetPlayerGesture

SpecGesture ==
    InitGesture /\ [][NextGesture]_vars

(* --------------------- ObstacleManager on its own ---------------------- *)
(* The public methods of ObstacleManager called in any order on the        *)
(* manager as constructed; the engine's state is left alone.               *)
\* what a call of a method of ObstacleManager received (arg), what it
\* returned (result; for removeObstacle, <<kind, mesh>> of the entry it was
\* given), and the sizes of the live list and the pools before it
RegOp(name, arg, result) ==
    [op |-> name, arg |-> arg, result |-> result, live |-> Len(obstacles),
     sizes |-> [k \in Kinds |-> Len(obstaclePool[k])]]

\* the speeds update(speed) is called with, in position units
RegSpeeds ==
    {MaxStep * PosUnit}

\* ObstacleManager.spawnObstacle(type), lane left at its default
SpawnObstacle ==
    \E type \in Kinds :
        LET s == spawnObstacle(obstacles, obstaclePool, type, 0)
        IN  /\ obstacles' = s.obstacles
            /\ obstaclePool' = s.pool
            /\ lastOp' = RegOp("spawnObstacle", type, s.spawned)
            /\ UNCHANGED <<gameState, isRunning, score, combo, maxCombo, speed,
                           playerGesture, nextSpawnTime, now,
                           playerModelLoaded, currentGesture,
                           events>>

\* ObstacleManager.removeObstacle(obstacle) for an entry of the live list
RemoveObstacle ==
    \E i \in 1..Len(obstacles) :
        LET r == removeObstacle(obstacles, obstaclePool, i)
        IN  /\ obstacles' = r.obstacles
            /\ obstaclePool' = r.pool
            /\ lastOp' = RegOp("removeObstacle", i,
                               <<obstacles[i].type, obstacles[i].mesh>>)
            /\ UNCHANGED <<gameState, isRunning, score, combo, maxCombo, speed,
                           playerGesture, nextSpawnTime, now,
                           playerModelLoaded, currentGesture,
                           events>>

\* ObstacleManager.removeObstacle(obstacle) called again, straight after a
\* removal, for the entry that removal took out of the live list
RemoveObstacleAgain ==
    /\ lastOp.op = "removeObstacle"
    /\ LET r == removeObstacleAbsent(obstacles, obstaclePool, lastOp.result)
       IN  /\ obstacles' = r.obstacles
           /\ obstaclePool' = r.pool
           /\ lastOp' = RegOp("removeObstacle", 0, lastOp.result)
           /\ UNCHANGED <<gameState, isRunning, score, combo, maxCombo, speed,
                          playerGesture, nextSpawnTime, now,
                          playerModelLoaded, currentGesture,
                          events>>

\* ObstacleManager.update(speed)
Update ==
    \E spd \in RegSpeeds :
        LET u == update(obstacles, obstaclePool, spd)
        IN  /\ Cardinality(Leaked(u.obstacles, u.pool)) <= RegMaxLeaked
            /\ obstacles' = u.obstacles
            /\ obstaclePool' = u.pool
            /\ lastOp' = RegOp("update", spd, TRUE)
            /\ UNCHANGED <<gameState, isRunning, score, combo, maxCombo, speed,
                           playerGesture, nextSpawnTime, now,
                           playerModelLoaded, currentGesture,
                           events>>

\* ObstacleManager.reset()
Reset ==
    LET r == reset(obstacles, obstaclePool)
    IN  /\ Cardinality(Leaked(r.obstacles, r.pool)) <= RegMaxLeaked
        /\ obstacles' = r.obstacles
        /\ obstaclePool' = r.pool
        /\ lastOp' = RegOp("reset", 0, TRUE)
        /\ UNCHANGED <<gameState, isRunning, score, combo, maxCombo, speed,
                       playerGesture, nextSpawnTime, now,
                       playerModelLoaded, currentGesture,
                       events>>

NextRegistry ==
    \/ SpawnObstacle
    \/ RemoveObstacle
    \/ RemoveObstacleAgain
    \/ Update
    \/ Reset

\* the managers as constructed, the player models loaded
InitRegistry ==
    /\ Init
    /\ playerModelLoaded
    /\ nextSpawnTime = scheduleNextSpawn(0, SpeedUnit, -(spawnIntervalVariation \div 2))

SpecRegistry ==
    InitRegistry /\ [][NextRegistry]_vars

(* ------------------ ObstacleManager.spawnObstacle alone ---------------- *)
(* spawnObstacle applied to registries the manager can be in: a live list  *)
(* of up to MaxLive obstacles, spaced as canSpawnObstacle spaces them, and *)
(* pools in which worn meshes of every kind have been left active outside  *)
(* the live list (what reset() leaves behind, one mesh for every second    *)
(* live obstacle, game after game).                                        *)
\* positions of a live obstacle: the spawn coordinate, just short of
\* minObstacleDistance from it, exactly that far, and at the player
SpawnZs ==
    {spawnDistance * PosUnit,
     (spawnDistance + minObstacleDistance) * PosUnit - 1,
     (spawnDistance + minObstacleDistance) * PosUnit,
     playerZ * PosUnit}

\* the numbers of meshes of a kind left active outside the live list
WornLevels ==
    {0, poolSize - 1, poolSize}

\* the live lists: kinds and positions, the oldest obstacle first
LiveLists ==
    UNION {[1..n -> Kinds \X SpawnZs] : n \in 0..MaxLive}

\* the registry with worn meshes active at the head of every pool and the
\* obstacles of live list l on the meshes that follow them
Registry(l, worn) ==
    LET rank(i) == Cardinality({j \in 1..i : l[j][1] = l[i][1]})
        count(k) == Cardinality({j \in 1..Len(l) : l[j][1] = k})
    IN  [obstacles |-> [i \in 1..Len(l) |->
                           Entry(l[i][1], worn + rank(i), 0, l[i][2])],
         pool |-> [k \in Kinds |->
                     [m \in 1..Max(poolSize, worn + count(k)) |->
                         m <= worn + count(k)]]]

\* the manager in one of these registries, the engine as constructed
InitSpawn ==
    /\ gameState = "start"
    /\ isRunning = FALSE
    /\ score = 0
    /\ combo = 0
    /\ maxCombo = 0
    /\ speed = SpeedUnit
    /\ playerGesture = "rock"
    /\ now = 0
    /\ nextSpawnTime = scheduleNextSpawn(0, SpeedUnit, -(spawnIntervalVariation \div 2))
    /\ playerModelLoaded = TRUE
    /\ currentGesture = "none"
    /\ \E l \in LiveLists, worn \in WornLevels :
          /\ \A i, j \in 1..Len(l) :
                (i < j) => l[i][2] - l[j][2] >= minObstacleDistance * PosUnit
          /\ obstacles = Registry(l, worn).obstacles
          /\ obstaclePool = Registry(l, worn).pool
    /\ lastOp = Plain("init", "none", "no")
    /\ events = <<>>

NextSpawn ==
    SpawnObstacle

SpecSpawn ==
    InitSpawn /\ [][NextSpawn]_vars

(* --------------------- the recognizer and the session ------------------ *)
(* Spec lets the recognizer's callback arrive with any gesture at any time *)
(* and does not follow the recognizer's own state.  Here the callback is   *)
(* made the way GestureRecognizer.updateGestureState makes it: only when   *)
(* the stable gesture, held long enough, differs from currentGesture.      *)
\* GestureRecognizer.updateGestureState(detectedGesture) past its two tests
\* (the stable gesture differs from currentGesture and was held for
\* minGestureHoldTime), then the callback Game.onGestureDetected
UpdateGestureState ==
    \E g \in Gestures \ {currentGesture} :
        /\ currentGesture' = g
        /\ playerGesture' = IF gameState = "playing"
                            THEN setPlayerGesture(playerGesture, g)
                            ELSE playerGesture
        /\ events' = <<>>
        /\ UNCHANGED <<gameState, isRunning, score, combo, maxCombo, speed,
                       nextSpawnTime, now, obstacles, obstaclePool,
                       playerModelLoaded, lastOp>>

\* the game as initialised, the player models loaded
InitRecognizer ==
    /\ Init
    /\ playerModelLoaded

NextRecognizer ==
    \/ Tick
    \/ StartGame
    \/ RestartGame
    \/ UpdateGestureState

SpecRecognizer ==
    InitRecognizer /\ [][NextRecognizer]_vars

(* ------------------------------ properties ----------------------------- *)
\* the obstacle the last update() resolved is in the live list
ResolvedIsLive ==
    \E i \in 1..Len(obstacles) :
        obstacles[i].type = lastOp.kind /\ obstacles[i].mesh = lastOp.mesh

\* the pooled mesh of the obstacle the last update() resolved is active
ResolvedIsActive ==
    obstaclePool[lastOp.kind][lastOp.mesh]

\* the last update() resolved a collision (handleCollision ran)
Resolved ==
    lastOp.op = "tick" /\ lastOp.outcome \in {"win", "tie", "loss"}

\* the speed update() recomputed before the collision was resolved
SpeedAtResolution ==
    Min(SpeedUnit + lastOp.score, (5 * SpeedUnit) \div 2)

\* the game-over notifications among a handler's callbacks
GameOvers(evs) ==
    SelectSeq(evs, LAMBDA e : e.type = "gameOver")

\* C1: a win adds 10 + floor(5 * speed) + 2 * combo to the score (combo as it
\* was before, speed as recomputed at the start of the tick), adds 1 to combo,
\* makes maxCombo the larger of maxCombo and the new combo, removes the
\* obstacle from the live list and leaves the session running; from a fresh
\* start paper against rock gives score 15 and combo 1
C1_WinScoring ==
    (lastOp.op = "tick" /\ lastOp.outcome = "win") =>
        /\ score = lastOp.score
                   + (10 + ((5 * SpeedAtResolution) \div SpeedUnit)
                         + 2 * lastOp.combo) * ScoreUnit
        /\ combo = lastOp.combo + 1
        /\ maxCombo = Max(lastOp.maxCombo, combo)
        /\ ~ResolvedIsLive
        /\ isRunning
        /\ (lastOp.score = 0 /\ lastOp.combo = 0)
              => (score = 15 * ScoreUnit /\ combo = 1)

\* a second win in a row, scored with the combo bonus
C1_Witness ==
    /\ lastOp.op = "tick" /\ lastOp.outcome = "win"
    /\ lastOp.combo = 1
    /\ lastOp.kind = "rock" /\ lastOp.g = "paper"
    /\ score = 35 * ScoreUnit

\* C2: a tie takes 10 * speed from the score and sets combo to 0; the session
\* is over afterwards exactly when the new score is negative; a tie at score
\* 0 (speed 1.0) gives -10 and ends the session
C2_TiePenalty ==
    (lastOp.op = "tick" /\ lastOp.outcome = "tie") =>
        /\ score * SpeedUnit
              = lastOp.score * SpeedUnit - 10 * SpeedAtResolution * ScoreUnit
        /\ combo = 0
        /\ isRunning <=> score >= 0
        /\ lastOp.score = 0 => (score = -10 * ScoreUnit /\ ~isRunning)

\* a tie that leaves the score at or above 0, the session still running
C2_Witness ==
    /\ lastOp.op = "tick" /\ lastOp.outcome = "tie"
    /\ isRunning
    /\ lastOp.combo = 2 /\ combo = 0
    /\ score = 10 * ScoreUnit

\* C3: a loss (the gesture is neither the required one nor the obstacle's
\* kind, 'none' included) ends the session in the same tick and leaves the
\* score as it was, whatever the score
C3_LossEndsSession ==
    (lastOp.op = "tick" /\ lastOp.outcome = "loss") =>
        /\ ~isRunning
        /\ gameState = "gameOver"
        /\ score = lastOp.score

\* a loss at a positive score
C3_Witness ==
    /\ lastOp.op = "tick" /\ lastOp.outcome = "loss"
    /\ lastOp.score > 0
    /\ lastOp.g \in Kinds
    /\ ~isRunning

\* the branch handleCollision takes for gesture g against an obstacle of
\* kind k, read off the model of handleCollision on a one-obstacle world
BranchOf(g, k) ==
    LET w == [World EXCEPT !.obstacles = <<Entry(k, 1, 0, playerZ * PosUnit)>>,
                           !.pool = [obstaclePool EXCEPT ![k][1] = TRUE]]
    IN  handleCollision(w, 1, g).op.outcome

\* C4: for every gesture and every kind exactly one of win, tie, loss is
\* taken: win iff the gesture is the required one, tie iff it is the kind
\* itself, loss otherwise; the required gesture is the 3-cycle rock -> paper,
\* paper -> scissors, scissors -> rock, which has no fixed point
C4_OutcomeTable ==
    /\ getRequiredGesture("rock") = "paper"
    /\ getRequiredGesture("paper") = "scissors"
    /\ getRequiredGesture("scissors") = "rock"
    /\ \A k \in Kinds :
          /\ getRequiredGesture(k) # k
          /\ getRequiredGesture(getRequiredGesture(getRequiredGesture(k))) = k
          /\ Cardinality({g \in Kinds : BranchOf(g, k) = "win"}) = 1
    /\ \A g \in {"none", "rock", "paper", "scissors"}, k \in Kinds :
          BranchOf(g, k) = IF g = getRequiredGesture(k) THEN "win"
                           ELSE IF g = k THEN "tie"
                           ELSE "loss"
    /\ Resolved =>
          lastOp.outcome = IF lastOp.g = getRequiredGesture(lastOp.kind) THEN "win"
                           ELSE IF lastOp.g = lastOp.kind THEN "tie"
                           ELSE "loss"

\* rock against scissors resolved as a win
C4_Witness ==
    /\ Resolved
    /\ lastOp.kind = "scissors" /\ lastOp.g = "rock"
    /\ lastOp.outcome = "win"

\* C5: whenever a collision is resolved the gesture compared is rock, paper
\* or scissors; a session that received no gesture before its first
\* collision resolves it against rock
C5_NormalizedIntent ==
    Resolved => lastOp.g \in Kinds

\* the first collision of a session that received no gesture: 'none' is
\* compared and the session ends
C5_Witness ==
    /\ lastOp.op = "tick" /\ lastOp.outcome = "loss"
    /\ lastOp.g = "none"
    /\ lastOp.score = 0 /\ lastOp.maxCombo = 0
    /\ ~isRunning

\* C6: setPlayerGesture('unknown') and setPlayerGesture('none') have the same
\* effect on the intent: a held rock, paper or scissors stays, 'none' becomes
\* rock; neither changes score, combo or isRunning
C6_NoHand ==
    [][(lastOp'.op = "setPlayerGesture" /\ lastOp'.g \in {"none", "unknown"}) =>
          /\ playerGesture' = IF playerGesture = "none" THEN "rock"
                              ELSE playerGesture
          /\ setPlayerGesture(playerGesture, "unknown")
                = setPlayerGesture(playerGesture, "none")
          /\ UNCHANGED <<score, combo, isRunning>>]_vars

\* an 'unknown' gesture received while nothing was held
C6_Witness ==
    /\ lastOp.op = "setPlayerGesture"
    /\ lastOp.g = "unknown" /\ lastOp.intent = "none"
    /\ playerGesture = "rock"
    /\ isRunning

\* C7: applying setPlayerGesture(g) twice in a row leaves the intent as one
\* application does; a concrete gesture other than the intent replaces it,
\* the same one changes nothing
C7_GestureIdempotent ==
    [][lastOp'.op = "setPlayerGesture" =>
          /\ (lastOp.op = "setPlayerGesture" /\ lastOp.g = lastOp'.g)
                => playerGesture' = playerGesture
          /\ lastOp'.g \in Kinds => playerGesture' = lastOp'.g
          /\ \A g \in Gestures :
                setPlayerGesture(setPlayerGesture(playerGesture, g), g)
                   = setPlayerGesture(playerGesture, g)]_vars

\* the same concrete gesture received a second time
C7_Witness ==
    /\ lastOp.op = "setPlayerGesture"
    /\ lastOp.g = "scissors" /\ lastOp.intent = "scissors"
    /\ playerGesture = "scissors"

\* C8: a step that takes the session from running to over emits exactly one
\* onGameOver(score, maxCombo), with the values held at that moment; no
\* handler emits one while the session is not running
C8_SingleGameOver ==
    [][/\ (isRunning /\ ~isRunning')
             => GameOvers(events') = <<GameOverEvent(score', maxCombo')>>
       /\ (isRunning /\ isRunning') => GameOvers(events') = <<>>
       /\ ~isRunning => GameOvers(events') = <<>>]_vars

\* a tie made the score negative: one score update, then one game over
C8_Witness ==
    /\ lastOp.op = "tick" /\ lastOp.outcome = "tie"
    /\ ~isRunning
    /\ events = <<ScoreEvent(score, speed), GameOverEvent(score, maxCombo)>>
    /\ maxCombo > 0

\* C9: while the session is not running, ticks and gestures change none of
\* score, combo, maxCombo, speed, the live list (positions included) and
\* nextSpawnTime and emit no callback; only start and restart make it run
C9_FrozenWhenNotRunning ==
    [][~isRunning =>
          \/ /\ ~isRunning'
             /\ events' = <<>>
             /\ UNCHANGED <<score, combo, maxCombo, speed, obstacles,
                            obstaclePool, nextSpawnTime>>
          \/ /\ isRunning'
             /\ lastOp'.op \in {"start", "restart"}]_vars

\* a tick after the session ended, the obstacles still in the live list
C9_Witness ==
    /\ gameState = "gameOver"
    /\ lastOp.op = "tick" /\ lastOp.outcome = "idle"
    /\ Len(obstacles) > 0
    /\ score > 0

\* C10: after a tie the tied obstacle is out of the live list and its pooled
\* mesh is inactive, also when the tie made the score negative
C10_TieRetires ==
    (lastOp.op = "tick" /\ lastOp.outcome = "tie") =>
        (~ResolvedIsLive /\ ~ResolvedIsActive)

\* a tie made the score negative: the session is over and the tied obstacle
\* is still in the live list, its mesh still active
C10_Witness ==
    /\ lastOp.op = "tick" /\ lastOp.outcome = "tie"
    /\ score < 0
    /\ ~isRunning
    /\ ResolvedIsLive
    /\ ResolvedIsActive

\* the sizes of the pools
PoolSizes ==
    [k \in Kinds |-> Len(obstaclePool[k])]

\* C11: after reset() the live list is empty, no pooled mesh of any kind is
\* active and every pool has the size it had, however many obstacles were
\* live before the call
C11_ResetClears ==
    lastOp.op = "reset" =>
        /\ obstacles = <<>>
        /\ ActiveMeshes(obstaclePool) = {}
        /\ PoolSizes = lastOp.sizes

\* reset() called with two live obstacles: the live list is empty and the
\* mesh of the second is still active
C11_Witness ==
    /\ lastOp.op = "reset"
    /\ lastOp.live = 2
    /\ obstacles = <<>>
    /\ Cardinality(ActiveMeshes(obstaclePool)) = 1
    /\ PoolSizes = lastOp.sizes

C13_Spacing ==
    /\ \A i, j \in 1..Len(obstacles) :
          (i < j) => obstacles[i].z - obstacles[j].z >= 8 * PosUnit
    /\ (lastOp.op = "tick" /\ lastOp.spawn = "spawned" /\ Len(obstacles) >= 2
          /\ obstacles[Len(obstacles)].z = -15 * PosUnit)
        => obstacles[Len(obstacles) - 1].z >= -7 * PosUnit

\* a spawn that succeeded while the obstacle spawned before it was live and
\* not yet at the player
C13_Witness ==
    /\ lastOp.op = "tick" /\ lastOp.spawn = "spawned"
    /\ isRunning
    /\ Len(obstacles) = 2
    /\ obstacles[2].z = spawnDistance * PosUnit
    /\ obstacles[1].z < 0

\* C14: spawnObstacle(kind) returns null and changes nothing exactly when
\* the live list is not empty and its last entry is closer than 8 to the
\* spawn coordinate; otherwise it appends one entry of that kind at the
\* spawn coordinate on a mesh that was not active and now is, and the pool
\* of the kind grows by one exactly when all its meshes were active
C14_SpawnResult ==
    [][lastOp'.op = "spawnObstacle" =>
          LET type == lastOp'.arg
              n == Len(obstacles)
              tooClose == /\ n > 0
                          /\ obstacles[n].z - (-15 * PosUnit) < 8 * PosUnit
                          /\ (-15 * PosUnit) - obstacles[n].z < 8 * PosUnit
              full == \A m \in 1..Len(obstaclePool[type]) : obstaclePool[type][m]
          IN  /\ lastOp'.result = ~tooClose
              /\ tooClose => UNCHANGED <<obstacles, obstaclePool>>
              /\ ~tooClose =>
                    /\ Len(obstacles') = n + 1
                    /\ SubSeq(obstacles', 1, n) = obstacles
                    /\ obstacles'[n + 1].type = type
                    /\ obstacles'[n + 1].z = -15 * PosUnit
                    /\ obstaclePool'[type][obstacles'[n + 1].mesh]
                    /\ \/ obstacles'[n + 1].mesh > Len(obstaclePool[type])
                       \/ ~obstaclePool[type][obstacles'[n + 1].mesh]
                    /\ Len(obstaclePool'[type])
                          = Len(obstaclePool[type]) + (IF full THEN 1 ELSE 0)
                    /\ \A m \in 1..Len(obstaclePool[type]) :
                          (m # obstacles'[n + 1].mesh)
                             => obstaclePool'[type][m] = obstaclePool[type][m]
                    /\ \A k \in Kinds \ {type} :
                          obstaclePool'[k] = obstaclePool[k]]_vars

\* a spawn that succeeded with every mesh of the kind active: the pool of
\* the kind has grown by one past its initial size
C14_Witness ==
    /\ lastOp.op = "spawnObstacle"
    /\ lastOp.result
    /\ lastOp.sizes[lastOp.arg] = poolSize
    /\ Len(obstaclePool[lastOp.arg]) = poolSize + 1
    /\ Len(obstacles) = lastOp.live + 1
    /\ lastOp.live > 0

\* C15: an obstacle that update(speed) advances past the despawn threshold
\* (8) is inactive afterwards, out of the live list and still a mesh of its
\* pool, whose size is unchanged; update() changes neither score nor combo,
\* ends no session and calls no listener.  (The obstacles of the live list
\* are ordered by position, so the first obstacle that crosses is advanced
\* before any other is removed.)
C15_DespawnRecycles ==
    [][lastOp'.op = "update" =>
          /\ \A i \in 1..Len(obstacles) :
                (/\ obstaclePool[obstacles[i].type][obstacles[i].mesh]
                 /\ obstacles[i].z + lastOp'.arg > 8 * PosUnit
                 /\ \A j \in 1..(i - 1) :
                       obstacles[j].z + lastOp'.arg <= 8 * PosUnit)
                => /\ ~obstaclePool'[obstacles[i].type][obstacles[i].mesh]
                   /\ \A j \in 1..Len(obstacles') :
                         <<obstacles'[j].type, obstacles'[j].mesh>>
                            # <<obstacles[i].type, obstacles[i].mesh>>
                   /\ Len(obstaclePool'[obstacles[i].type])
                         = Len(obstaclePool[obstacles[i].type])
          /\ \A j \in 1..Len(obstacles') : obstacles'[j].z <= 8 * PosUnit
          /\ UNCHANGED <<score, combo, maxCombo, isRunning, gameState, events>>]_vars

\* update() took the only live obstacle past the threshold: the live list
\* is empty and no mesh is active
C15_Witness ==
    /\ lastOp.op = "update"
    /\ lastOp.live = 1
    /\ obstacles = <<>>
    /\ ActiveMeshes(obstaclePool) = {}

\* C16: combo never exceeds maxCombo; combo is 0 after a tie or a loss; and
\* between two starts maxCombo never decreases: it is the larger of what it
\* was and the new combo
C16_ComboBound ==
    /\ [](0 <= combo /\ combo <= maxCombo)
    /\ [][/\ (lastOp'.op = "tick" /\ lastOp'.outcome \in {"tie", "loss"})
                => combo' = 0
          /\ (lastOp'.op \notin {"start", "restart"})
                => /\ maxCombo' >= maxCombo
                   /\ maxCombo' = IF combo' > maxCombo THEN combo'
                                   ELSE maxCombo]_vars

\* a loss after two wins in a row: combo is back to 0, maxCombo is still 2
C16_Witness ==
    /\ lastOp.op = "tick" /\ lastOp.outcome = "loss"
    /\ lastOp.combo = 2
    /\ combo = 0
    /\ maxCombo = 2

\* the score the last running tick started from
ScoreAtTick ==
    IF lastOp.outcome \in {"win", "tie", "loss", "pass"} THEN lastOp.score
    ELSE score

\* the speed as a function of the score is non-decreasing, over the scores
\* of the model and the negative scores a tie can leave
SpeedMonotone ==
    \A s1, s2 \in (-25 * ScoreUnit)..(MaxScore * ScoreUnit + 1) :
        (s1 <= s2) => SpeedOf(s1) <= SpeedOf(s2)

\* C17: the speed a running tick recomputes is min(1 + 0.05 * score, 2.5)
\* for the score the tick started from; that function is non-decreasing in
\* the score; and in every reachable state 1.0 <= speed <= 2.5
C17_SpeedRange ==
    /\ SpeedUnit <= speed
    /\ 2 * speed <= 5 * SpeedUnit
    /\ (lastOp.op = "tick" /\ lastOp.outcome # "idle")
          => speed = IF 2 * (SpeedUnit + ScoreAtTick) <= 5 * SpeedUnit
                     THEN SpeedUnit + ScoreAtTick
                     ELSE (5 * SpeedUnit) \div 2
    /\ SpeedMonotone

\* a running tick at score 35: 1 + 0.05 * 35 = 2.75 is clamped to 2.5
C17_Witness ==
    /\ lastOp.op = "tick" /\ lastOp.outcome = "none"
    /\ isRunning
    /\ score = 35 * ScoreUnit
    /\ 2 * speed = 5 * SpeedUnit

\* C18: in every reachable state speed is clamp(1 + 0.05 * score, 1.0, 2.5)
\* for the current score, and every onScoreUpdate reports, with a score,
\* that function of it (to one decimal)
C18_SpeedPureFunction ==
    /\ speed = Max(SpeedUnit, Min(SpeedUnit + score, (5 * SpeedUnit) \div 2))
    /\ \A i \in 1..Len(events) :
          (events[i].type = "score")
             => events[i].arg
                   = ToFixed1(Max(SpeedUnit, Min(SpeedUnit + events[i].score,
                                                 (5 * SpeedUnit) \div 2)))

\* after the first win the score is 15 and the speed, observed and
\* reported, is still 1.0
C18_Witness ==
    /\ lastOp.op = "tick" /\ lastOp.outcome = "win"
    /\ score = 15 * ScoreUnit
    /\ speed = SpeedUnit
    /\ events = <<[type |-> "score", score |-> 15 * ScoreUnit, arg |-> 10]>>

\* C19: the score is an integer in every reachable state
C19_IntegerScore ==
    score % ScoreUnit = 0

\* a tie at score 15 (speed 1.75, penalty 17.5) leaves the score at -2.5
C19_Witness ==
    /\ lastOp.op = "tick" /\ lastOp.outcome = "tie"
    /\ lastOp.score = 15 * ScoreUnit
    /\ 2 * score = -5 * ScoreUnit
    /\ ~isRunning

\* C20: after startGame()/restartGame() the session runs with score, combo
\* and maxCombo 0, speed 1.0, an empty live list and nextSpawnTime later
\* than the current time; a step makes the session run only if it is a
\* start from the start screen or a restart from the game-over screen
C20_StartPostcondition ==
    /\ [](lastOp.op \in {"start", "restart"} =>
            /\ isRunning
            /\ gameState = "playing"
            /\ score = 0
            /\ combo = 0
            /\ maxCombo = 0
            /\ speed = SpeedUnit
            /\ obstacles = <<>>
            /\ nextSpawnTime > now)
    /\ [][(~isRunning /\ isRunning') =>
              \/ gameState = "start" /\ lastOp'.op = "start"
              \/ gameState = "gameOver" /\ lastOp'.op = "restart"]_vars

\* a session restarted from the game-over screen
C20_Witness ==
    /\ lastOp.op = "restart"
    /\ isRunning
    /\ score = 0
    /\ obstacles = <<>>
    /\ nextSpawnTime > now
    /\ playerGesture = "none"

\* C21: a running tick whose collision loop reaches an obstacle beyond z = 5
\* that does not overlap the player ends the session in that tick, with the
\* score as it was; so while the session runs no live active obstacle is
\* beyond z = 5
C21_PassThroughEnds ==
    /\ (lastOp.op = "tick" /\ lastOp.outcome = "pass")
          => /\ ~isRunning
             /\ gameState = "gameOver"
             /\ score = lastOp.score
             /\ combo = 0
    /\ isRunning
          => \A i \in 1..Len(obstacles) :
                obstaclePool[obstacles[i].type][obstacles[i].mesh]
                   => obstacles[i].z <= 5 * PosUnit

\* the player model is not loaded, nothing overlaps, and the first obstacle
\* passed z = 5: the session is over and the obstacle is still live
C21_Witness ==
    /\ lastOp.op = "tick" /\ lastOp.outcome = "pass"
    /\ ~playerModelLoaded
    /\ ~isRunning
    /\ Len(obstacles) >= 1
    /\ obstacles[1].z > 5 * PosUnit
    /\ obstacles[1].mesh = lastOp.mesh

\* C22: an obstacle spawned by a tick while an older obstacle is live in
\* the center lane is not of the kind of the most recent such obstacle
C22_AntiRepeat ==
    (/\ lastOp.op = "tick"
     /\ lastOp.spawn = "spawned"
     /\ Len(obstacles) >= 2
     /\ obstacles[Len(obstacles)].z = spawnDistance * PosUnit)
       => obstacles[Len(obstacles)].type # obstacles[Len(obstacles) - 1].type

\* a rock spawned in the center lane behind a live rock
C22_Witness ==
    /\ lastOp.op = "tick"
    /\ lastOp.spawn = "spawned"
    /\ isRunning
    /\ Len(obstacles) = 2
    /\ obstacles[2].z = spawnDistance * PosUnit
    /\ obstacles[1].type = "rock"
    /\ obstacles[2].type = "rock"
    /\ obstacles[1].lane = 0 /\ obstacles[2].lane = 0

\* C23: removeObstacle called a second time in a row for the same entry
\* changes neither the live list nor any active flag nor the pools, and
\* after either call the entry's mesh is inactive and no live entry
\* references it
C23_RemoveIdempotent ==
    /\ [](lastOp.op = "removeObstacle" =>
            /\ ~obstaclePool[lastOp.result[1]][lastOp.result[2]]
            /\ \A i \in 1..Len(obstacles) :
                  <<obstacles[i].type, obstacles[i].mesh>> # lastOp.result)
    /\ [][(/\ lastOp.op = "removeObstacle"
           /\ lastOp'.op = "removeObstacle"
           /\ lastOp'.arg = 0
           /\ lastOp'.result = lastOp.result)
             => /\ obstacles' = obstacles
                /\ obstaclePool' = obstaclePool]_vars

\* the second removal of an entry, another obstacle still being live
C23_Witness ==
    /\ lastOp.op = "removeObstacle"
    /\ lastOp.arg = 0
    /\ lastOp.live = 1
    /\ Len(obstacles) = 1
    /\ obstaclePool[obstacles[1].type][obstacles[1].mesh]

\* C24: one update(speed) call leaves every obstacle that was live and
\* active when it started, and that does not cross the despawn threshold,
\* in the live list with its position increased by exactly speed
C24_AdvanceAll ==
    [][lastOp'.op = "update" =>
          \A i \in 1..Len(obstacles) :
             (/\ obstaclePool[obstacles[i].type][obstacles[i].mesh]
              /\ obstacles[i].z + lastOp'.arg <= despawnDistance * PosUnit)
                => \E j \in 1..Len(obstacles') :
                      obstacles'[j] = [obstacles[i] EXCEPT !.z = @ + lastOp'.arg]]_vars

\* update() called with two live obstacles: the first crossed the despawn
\* threshold, the second was neither advanced nor kept and is still active
C24_Witness ==
    /\ lastOp.op = "update"
    /\ lastOp.live = 2
    /\ obstacles = <<>>
    /\ Cardinality(ActiveMeshes(obstaclePool)) = 1

\* C25: a running tick resolves at most one obstacle, the first one in
\* live-list order that overlaps the player after the move: it is resolved
\* unless an obstacle before it has passed z = 5; every other obstacle is
\* left in the live list as the move left it, its active flag unchanged;
\* at most one score notification is sent; and a tick that resolves nothing
\* changes neither score nor combo
C25_OneCollision ==
    [][(isRunning /\ now' # now) =>
          LET u == update(obstacles, obstaclePool, CurrentSpeed(SpeedOf(score)))
              m == u.obstacles
              overl == {i \in 1..Len(m) :
                          /\ playerModelLoaded
                          /\ u.pool[m[i].type][m[i].mesh]
                          /\ 3 * PosUnit <= m[i].z
                          /\ m[i].z <= 5 * PosUnit}
              first == IF overl = {} THEN 0
                       ELSE CHOOSE i \in overl : \A j \in overl : i <= j
              resolved == lastOp'.outcome \in {"win", "tie", "loss"}
          IN  /\ resolved => /\ first # 0
                             /\ lastOp'.kind = m[first].type
                             /\ lastOp'.mesh = m[first].mesh
              /\ (first # 0 /\ \A i \in 1..(first - 1) : m[i].z <= 5 * PosUnit)
                    => resolved
              /\ \A i \in 1..Len(m) :
                    (i # first \/ ~resolved)
                       => /\ \E j \in 1..Len(obstacles') : obstacles'[j] = m[i]
                          /\ obstaclePool'[m[i].type][m[i].mesh]
                                = u.pool[m[i].type][m[i].mesh]
              /\ Len(obstacles') >= Len(m) - 1
              /\ Cardinality({i \in 1..Len(events') : events'[i].type = "score"}) <= 1
              /\ lastOp'.outcome = "none" => score' = score /\ combo' = combo]_vars

\* a win resolved in a tick that left a second obstacle live and the
\* session running, with one score notification
C25_Witness ==
    /\ lastOp.op = "tick" /\ lastOp.outcome = "win"
    /\ isRunning
    /\ Len(obstacles) = 1
    /\ obstaclePool[obstacles[1].type][obstacles[1].mesh]
    /\ obstacles[1].z < 3 * PosUnit
    /\ Len(events) = 1
    /\ events[1].type = "score"

\* C26: a step that changes the player intent is a gesture event: it
\* changes nothing else of the session (ticks, collision resolution, game
\* over, start and restart leave the intent as it is)
C26_SingleWriter ==
    [][playerGesture' # playerGesture =>
          UNCHANGED <<gameState, isRunning, score, combo, maxCombo, speed,
                      nextSpawnTime, now, obstacles, obstaclePool, lastOp>>]_vars

\* the session was started with the intent rock (set by init()) and runs
\* with the intent none
C26_Witness ==
    /\ lastOp.op = "start"
    /\ isRunning
    /\ playerGesture = "none"

\* C27: a pooled mesh is active if and only if exactly one entry of the
\* live list references it
C27_LiveEqualsActive ==
    \A k \in Kinds :
       \A m \in 1..Len(obstaclePool[k]) :
          obstaclePool[k][m]
             <=> Cardinality({i \in 1..Len(obstacles) :
                                 obstacles[i].type = k /\ obstacles[i].mesh = m}) = 1

\* an obstacle spawned on the second mesh of its pool, the first one being
\* active and referenced by no live entry
C27_Witness ==
    /\ lastOp.op = "spawnObstacle"
    /\ lastOp.result
    /\ Len(obstacles) = 1
    /\ obstacles[1].mesh = 2
    /\ obstaclePool[obstacles[1].type][1]
    /\ <<obstacles[1].type, 1>> \in Leaked(obstacles, obstaclePool)

\* C28: while the game is playing and the recognizer reports a concrete
\* gesture, the engine's player intent is that gesture
C28_RecognizerAgrees ==
    (gameState = "playing" /\ currentGesture \in Kinds)
       => playerGesture = currentGesture

\* the recognizer reports paper, reported before the session was started
\* and held since; the rock that reached the player was resolved with the
\* intent none and ended the session
C28_Witness ==
    /\ lastOp.op = "tick" /\ lastOp.outcome = "loss"
    /\ lastOp.kind = "rock"
    /\ lastOp.g = "none"
    /\ currentGesture = "paper"
    /\ playerGesture = "none"
    /\ gameState = "gameOver"

InLiveList(k, m) ==
    \E i \in 1..Len(obstacles) : obstacles[i].type = k /\ obstacles[i].mesh = m

\* the session runs and the bounds of the model cut its next tick off
Capped ==
    isRunning /\ ~ENABLED Tick

\* C29: under fair ticking no obstacle stays in the live list for ever
\* while the session keeps running: for every pooled mesh, again and again
\* no live entry references it, or the session is not running (or the run
\* has reached the bounds of the model)
C29_EventuallyResolved ==
    \A k \in Kinds :
       \A m \in 1..poolSize :
          []<>(~InLiveList(k, m) \/ ~isRunning \/ Capped)

\* a tie took the only live obstacle out of the live list and the session
\* runs on
C29_Witness ==
    /\ lastOp.op = "tick" /\ lastOp.outcome = "tie"
    /\ isRunning
    /\ obstacles = <<>>
    /\ ~obstaclePool[lastOp.kind][lastOp.mesh]

====
